---- MODULE Spec2Model ----
(***************************************************************************)
(* Model of sandswitches/manage.py: the fs_cli wrapper `cli`, the          *)
(* ConfigManager (revert, commit, sofia_status, get_users) and             *)
(* manage_config.                                                          *)
(*                                                                         *)
(* Text (console output, file contents) is a sequence of one-character     *)
(* strings, so that strip(), splitlines(), split() and startswith() are    *)
(* computed character by character as Python computes them.                *)
(*                                                                         *)
(* What lies outside manage.py is modelled at its interface:               *)
(*  - a call of the sftp transport (getfo, putfo, rename, open, write)     *)
(*    either completes or raises IOError having changed nothing;           *)
(*  - self._cli(...) either returns the console's output or raises         *)
(*    ProcessExecutionError;                                               *)
(*  - fscli.api(cmd) is one call of the console client (cli.__call__);     *)
(*  - the server re-reads the root file exactly when it answers +OK to     *)
(*    reloadxml, and answers xml_locate root with the configuration it     *)
(*    has loaded;                                                          *)
(*  - RestoreFile keeps the contents the file has when the handle is       *)
(*    built, and restore() writes them back;                               *)
(*  - one thread of control and no other writer of the remote files.       *)
(***************************************************************************)
EXTENDS Integers, Sequences, FiniteSets, TLC

VARIABLES
    fs,       \* remote filesystem: path -> contents, its domain the existing paths
    now,      \* the second the clock showed when time.strftime read it last
    loaded,   \* the configuration text the running server has loaded
    mng,      \* <<>> or <<manager>>: the ConfigManager manage_config returned last
    pc,       \* position of the single thread of control
    tree,     \* manage_config's local `tree`
    backup,   \* manage_config's local `backup` path
    trace,    \* the remote calls of the operation in progress (or the last one)
    raised,   \* those of them that raised: <<[step, error]>>
    result,   \* how the last finished operation ended
    pre,      \* the remote state when the operation in progress (or the last one) began
    call,     \* the arguments of the last call of cli / sofia_status / get_users
    ret       \* what that call returned or raised

vars == <<fs, now, loaded, mng, pc, tree, backup, trace, raised, result, pre, call, ret>>

mgrvars == <<fs, now, loaded, mng, pc, tree, backup, trace, raised, result, pre>>

-----------------------------------------------------------------------------
(* Bounds of the model.                                                    *)

MaxLines == 2      \* lines of console output in the cli specification
MaxPreds == 2      \* caller predicates (erroron) per cli call
MaxRev == 1        \* distinct edit generations of the in-memory tree
MaxStamp == 1      \* distinct seconds time.strftime can return
MaxKw == 2         \* filters passed to get_users
MaxUsers == 2      \* data rows of a list_users reply
MaxRows == 3       \* data rows of a sofia status reply

-----------------------------------------------------------------------------
(* Python str operations on character sequences.                           *)

Whitespace == {" ", "\t", "\n"}

Last(s) == s[Len(s)]

Front(s) == SubSeq(s, 1, Len(s) - 1)

RECURSIVE LStrip(_)
LStrip(s) ==
    IF s # <<>> /\ Head(s) \in Whitespace THEN LStrip(Tail(s)) ELSE s

RECURSIVE RStrip(_)
RStrip(s) ==
    IF s # <<>> /\ Last(s) \in Whitespace THEN RStrip(Front(s)) ELSE s

\* str.strip()
Strip(s) == RStrip(LStrip(s))

\* str.startswith(prefix)
StartsWith(s, prefix) ==
    /\ Len(s) >= Len(prefix)
    /\ SubSeq(s, 1, Len(prefix)) = prefix

\* `sub in s`
Contains(s, sub) ==
    \E i \in 1..(Len(s) - Len(sub) + 1) : SubSeq(s, i, i + Len(sub) - 1) = sub

\* index of the first occurrence of sub in s at or after position 1; 0 if none
Find(s, sub) ==
    IF Contains(s, sub)
    THEN CHOOSE i \in 1..(Len(s) - Len(sub) + 1) :
            /\ SubSeq(s, i, i + Len(sub) - 1) = sub
            /\ \A j \in 1..(i - 1) : SubSeq(s, j, j + Len(sub) - 1) # sub
    ELSE 0

\* str.split(sep) for a non-empty separator: always at least one piece
RECURSIVE Split(_, _)
Split(s, sep) ==
    LET i == Find(s, sep) IN
    IF i = 0 THEN <<s>>
    ELSE <<SubSeq(s, 1, i - 1)>> \o Split(SubSeq(s, i + Len(sep), Len(s)), sep)

\* str.splitlines(): no piece for the empty text or after a final newline
SplitLines(s) ==
    IF s = <<>> THEN <<>>
    ELSE LET parts == Split(s, <<"\n">>) IN
         IF Last(parts) = <<>> THEN Front(parts) ELSE parts

\* sep.join(parts)
RECURSIVE Join(_, _)
Join(parts, sep) ==
    IF parts = <<>> THEN <<>>
    ELSE IF Len(parts) = 1 THEN parts[1]
    ELSE parts[1] \o sep \o Join(Tail(parts), sep)

\* str.split() with no argument: runs of whitespace separate, no empty pieces
RECURSIVE SplitWS(_)
SplitWS(s) ==
    LET t == LStrip(s) IN
    IF t = <<>> THEN <<>>
    ELSE LET n == IF \E i \in 1..Len(t) : t[i] \in Whitespace
                  THEN (CHOOSE i \in 1..Len(t) :
                          /\ t[i] \in Whitespace
                          /\ \A j \in 1..(i - 1) : t[j] \notin Whitespace) - 1
                  ELSE Len(t)
         IN <<SubSeq(t, 1, n)>> \o SplitWS(SubSeq(t, n + 1, Len(t)))

UpperToLower == [c \in {"N", "T", "D", "S"} |->
                    CASE c = "N" -> "n" [] c = "T" -> "t"
                      [] c = "D" -> "d" [] c = "S" -> "s"]

\* str.lower()
Lower(s) ==
    [i \in 1..Len(s) |-> IF s[i] \in DOMAIN UpperToLower THEN UpperToLower[s[i]] ELSE s[i]]

\* all sequences over S of length 0..n
SeqsUpTo(S, n) == UNION {[1..k -> S] : k \in 0..n}

\* the sequences over S without a repeated element, of length 0..n
DistinctSeqs(S, n) ==
    {q \in SeqsUpTo(S, n) : \A i, j \in 1..Len(q) : i # j => q[i] # q[j]}

-----------------------------------------------------------------------------
(* cli.__call__: one fs_cli invocation with error classification.          *)

ERR == <<"-", "E", "R", "R">>

\* The caller predicates a call can pass as **erroron, by name.
PredNames == {"isempty", "multiline", "never"}

ApplyPred(name, out) ==
    CASE name = "isempty" -> out = <<>>
      [] name = "multiline" -> Len(SplitLines(out)) > 1
      [] name = "never" -> FALSE

\* index of the first predicate of erroron that is true of out; 0 if none
FirstTrue(erroron, out) ==
    IF \E i \in 1..Len(erroron) : ApplyPred(erroron[i], out)
    THEN CHOOSE i \in 1..Len(erroron) :
            /\ ApplyPred(erroron[i], out)
            /\ \A j \in 1..(i - 1) : ~ApplyPred(erroron[j], out)
    ELSE 0

Raise(kind, msg, errchecked, evaluated) ==
    [kind |-> kind, msg |-> msg, value |-> <<>>, runs |-> 1,
     errchecked |-> errchecked, evaluated |-> evaluated]

\* A mutant: the -ERR test is skipped.
cli_call_noerr(ex, erroron) ==
    IF ex.raised
    THEN Raise("CLIConnectionError", ex.err, FALSE, <<>>)
    ELSE LET out == Strip(ex.out)
             k == FirstTrue(erroron, out)
         IN IF k # 0 THEN Raise("CLIError", out, TRUE, SubSeq(erroron, 1, k))
            ELSE [kind |-> "return", msg |-> <<>>, value |-> out, runs |-> 1,
                  errchecked |-> TRUE, evaluated |-> erroron]

\* A mutant: the transport's failure is classified as a plain CLIError.
cli_call_plain(ex, erroron) ==
    IF ex.raised
    THEN Raise("CLIError", ex.err, FALSE, <<>>)
    ELSE LET out == Strip(ex.out)
             lines == SplitLines(out)
             k == FirstTrue(erroron, out)
         IN IF lines # <<>> /\ StartsWith(Last(lines), ERR)
            THEN Raise("CLIError", out, TRUE, <<>>)
            ELSE IF k # 0 THEN Raise("CLIError", out, TRUE, SubSeq(erroron, 1, k))
            ELSE [kind |-> "return", msg |-> <<>>, value |-> out, runs |-> 1,
                  errchecked |-> TRUE, evaluated |-> erroron]

\* A mutant: only the first predicate of erroron is applied.
cli_call_firstpred(ex, erroron) ==
    IF ex.raised
    THEN Raise("CLIConnectionError", ex.err, FALSE, <<>>)
    ELSE LET out == Strip(ex.out)
             lines == SplitLines(out)
             one == IF erroron = <<>> THEN <<>> ELSE <<erroron[1]>>
             k == FirstTrue(one, out)
         IN IF lines # <<>> /\ StartsWith(Last(lines), ERR)
            THEN Raise("CLIError", out, TRUE, <<>>)
            ELSE IF k # 0 THEN Raise("CLIError", out, TRUE, one)
            ELSE [kind |-> "return", msg |-> <<>>, value |-> out, runs |-> 1,
                  errchecked |-> TRUE, evaluated |-> one]

\* A mutant: any line beginning with -ERR makes the call raise.
cli_call_anyline(ex, erroron) ==
    IF ex.raised
    THEN Raise("CLIConnectionError", ex.err, FALSE, <<>>)
    ELSE LET out == Strip(ex.out)
             lines == SplitLines(out)
             k == FirstTrue(erroron, out)
         IN IF \E i \in 1..Len(lines) : StartsWith(lines[i], ERR)
            THEN Raise("CLIError", out, TRUE, <<>>)
            ELSE IF k # 0 THEN Raise("CLIError", out, TRUE, SubSeq(erroron, 1, k))
            ELSE [kind |-> "return", msg |-> <<>>, value |-> out, runs |-> 1,
                  errchecked |-> TRUE, evaluated |-> erroron]

\* ex is what self._cli(...) did: [raised, out, err]; erroron the predicate
\* names in the order the dict yields them.  The result says how the call
\* ended (kind), the exception's message or the returned value, how many
\* times self._cli was run, whether the -ERR test ran and which predicates
\* were applied.
cli_call(ex, erroron) ==
    IF ex.raised
    THEN Raise("CLIConnectionError", ex.err, FALSE, <<>>)
    ELSE LET out == Strip(ex.out)
             lines == SplitLines(out)
             k == FirstTrue(erroron, out)
         IN IF lines # <<>> /\ StartsWith(Last(lines), ERR)
            THEN Raise("CLIError", out, TRUE, <<>>)
            ELSE IF k # 0 THEN Raise("CLIError", out, TRUE, SubSeq(erroron, 1, k))
            ELSE [kind |-> "return", msg |-> <<>>, value |-> out, runs |-> 1,
                  errchecked |-> TRUE, evaluated |-> erroron]

-----------------------------------------------------------------------------
(* The cli specification: cli.__call__ on bounded console outputs.         *)

\* Lines a console can print: an error reply, a success reply, the marker
\* not at the start of the line, a cut marker, an empty line.
CliLines ==
    { <<"-", "E", "R", "R", " ", "x">>,
      <<"+", "O", "K">>,
      <<"x", " ", "-", "E", "R", "R">>,
      <<"-", "E", "R">>,
      <<>> }

CliPads == { <<>>, <<" ">>, <<"\n">> }

CliOutputs ==
    { lead \o Join(ls, <<"\n">>) \o trail :
        lead \in CliPads, trail \in CliPads, ls \in SeqsUpTo(CliLines, MaxLines) }

\* str(err) of the transport's ProcessExecutionError
TransportMsg == <<"r", "c", "=", "1">>

CliExecs ==
    {[raised |-> FALSE, out |-> o, err |-> <<>>] : o \in CliOutputs}
      \cup {[raised |-> TRUE, out |-> <<>>, err |-> TransportMsg]}

NoCall == [op |-> "none"]

NoRet == [kind |-> "none"]

MgrIdle ==
    /\ fs = <<>>
    /\ now = 1
    /\ loaded = <<>>
    /\ mng = <<>>
    /\ pc = "idle"
    /\ tree = <<>>
    /\ backup = 0
    /\ trace = <<>>
    /\ raised = <<>>
    /\ result = <<>>
    /\ pre = <<>>

CliCalls ==
    {[op |-> "cli", ex |-> ex, erroron |-> erroron] :
        ex \in CliExecs, erroron \in DistinctSeqs(PredNames, MaxPreds)}

CliInit ==
    /\ MgrIdle
    /\ call \in CliCalls
    /\ ret = NoRet

\* self(*tokens, **erroron)
Invoke ==
    /\ ret = NoRet
    /\ ret' = cli_call(call.ex, call.erroron)
    /\ UNCHANGED <<call, mgrvars>>

CliNext == Invoke

CliSpec == CliInit /\ [][CliNext]_vars

-----------------------------------------------------------------------------
(* XML documents.  A document is abstracted to what manage.py looks at:    *)
(* whether the sofia.conf configuration section is present, an edit        *)
(* generation, the element text and the tail text.  Its text form is       *)
(*     < S|s digit text-code tail-code >                                   *)
(* followed by a newline when pretty-printed.                              *)
(*   text codes: n None, e the empty string, a one non-blank line,         *)
(*               b blank lines only, m blank lines around a non-blank line *)
(*   tail codes: n None, w whitespace only, t non-blank text               *)

Digits == <<"0", "1", "2", "3", "4", "5", "6", "7", "8", "9">>

TextCodes == {"n", "e", "a", "b", "m"}

TailCodes == {"n", "w", "t"}

DigitValue(c) == (CHOOSE i \in 1..Len(Digits) : Digits[i] = c) - 1

\* etree.tostring(tree, pretty_print=True)
tostring(t) ==
    <<"<", IF t.sofia THEN "S" ELSE "s", Digits[t.rev + 1], t.text, t.tail, ">", "\n">>

\* A mutant: serialization without pretty_print.
tostring_compact(t) ==
    <<"<", IF t.sofia THEN "S" ELSE "s", Digits[t.rev + 1], t.text, t.tail, ">">>

\* etree.parse / etree.fromstring with XMLParser(remove_blank_text=True):
\* whitespace-only text between tags (a blank tail) is dropped, an element
\* written with empty text has no text, whitespace around the root is ignored.
Parse(s) ==
    LET b == Strip(s) IN
    IF /\ Len(b) = 6
       /\ b[1] = "<"
       /\ b[2] \in {"S", "s"}
       /\ \E i \in 1..Len(Digits) : Digits[i] = b[3]
       /\ b[4] \in TextCodes
       /\ b[5] \in TailCodes
       /\ b[6] = ">"
    THEN [ok |-> TRUE,
          tree |-> [sofia |-> b[2] = "S",
                    rev |-> DigitValue(b[3]),
                    text |-> IF b[4] = "e" THEN "n" ELSE b[4],
                    tail |-> IF b[5] = "w" THEN "n" ELSE b[5]]]
    ELSE [ok |-> FALSE, tree |-> <<>>]

\* tree.xpath('section/configuration[@name="sofia.conf"]')
HasSofia(t) == t.sofia

\* the lines of an element text, by code
TextLinesOf(code) ==
    CASE code = "e" -> <<>>
      [] code = "a" -> << <<"a">> >>
      [] code = "b" -> << <<>>, <<" ">> >>
      [] code = "m" -> << <<>>, <<"a">>, <<" ">> >>

CodeOfText(text) ==
    CASE text = <<>> -> "e"
      [] text = <<"a">> -> "a"

IsNonBlank(line) == Strip(line) # <<>>

\* A mutant: the merged tree is written as the server sent it.
Normalize_skip(t) == t

\* manage_config's loop over root.iter(): every tail becomes None and every
\* text that is not None becomes its non-blank lines joined by os.linesep
Normalize(t) ==
    [t EXCEPT !.tail = "n",
              !.text = IF @ = "n" THEN "n"
                       ELSE CodeOfText(Join(SelectSeq(TextLinesOf(@), IsNonBlank), <<"\n">>))]

-----------------------------------------------------------------------------
(* The remote host: the file tree reached over sftp and the fs_cli console *)

\* confpath = os.path.join(rootpath, 'freeswitch.xml')
ConfPath == 0

\* confpath + time.strftime('_backup_%Y-%m-%d-%H-%M-%S'), at second t >= 1
BackupPath(t) == t

Exists(path) == path \in DOMAIN fs

WriteFile(f, path, data) ==
    [p \in DOMAIN f \cup {path} |-> IF p = path THEN data ELSE f[p]]

\* A mutant: the root file is copied to the backup path, not moved.
RenameFile_copy(f, old, new) ==
    [p \in DOMAIN f \cup {new} |-> IF p = new THEN f[old] ELSE f[p]]

RenameFile(f, old, new) ==
    [p \in (DOMAIN f \ {old}) \cup {new} |-> IF p = new THEN f[old] ELSE f[p]]

\* How a transport call can end: it completes, or it raises having done nothing.
IoOutcomes == {"ok", "IOError"}

OkReply == <<"+", "O", "K", "\n">>

ErrReply == <<"-", "E", "R", "R", " ", "x", "\n">>

Ran(out) == [raised |-> FALSE, out |-> out, err |-> <<>>]

Failed == [raised |-> TRUE, out |-> <<>>, err |-> TransportMsg]

\* fscli.api(cmd): one call of the console client, without predicates
fscli_api(ex) == cli_call(ex, <<>>)

\* the entries a console call adds to the trace: one for each run of cmd
Runs(r, cmd) == [i \in 1..r.runs |-> cmd]

\* a remote call of the operation raised
Raised(step, error) == [step |-> step, error |-> error]

Running(op) == [op |-> op, status |-> "running"]

Done(op, status) == [op |-> op, status |-> status]

\* what an operation finds when it begins: the files, the configuration
\* the server has loaded, the manager's tree, the manager the caller holds,
\* and whether the operation before it was a revert that succeeded
Snapshot(etree) ==
    [fs |-> fs, loaded |-> loaded, etree |-> etree, mng |-> mng,
     reverted |-> (result = [op |-> "revert", status |-> "ok"])]

-----------------------------------------------------------------------------
(* manage_config, one action per remote call                               *)

\* A mutant: the sofia probe is ignored and the configuration always aggregated.
manage_config_fetch_always ==
    /\ pc = "idle"
    /\ pre' = Snapshot(<<>>)
    /\ trace' = <<"getfo">>
    /\ \E io \in IoOutcomes :
          IF io = "IOError" \/ ~Exists(ConfPath)
          THEN /\ result' = Done("manage_config", "IOError")
               /\ raised' = <<Raised("getfo", "IOError")>>
               /\ tree' = <<>>
               /\ UNCHANGED pc
          ELSE LET p == Parse(fs[ConfPath]) IN
               IF ~p.ok
               THEN /\ result' = Done("manage_config", "XMLSyntaxError")
                    /\ raised' = <<>>
                    /\ tree' = <<>>
                    /\ UNCHANGED pc
               ELSE /\ result' = Running("manage_config")
                    /\ raised' = <<>>
                    /\ tree' = p.tree
                    /\ pc' = "mc_locate"
    /\ backup' = 0
    /\ UNCHANGED <<fs, now, loaded, mng, call, ret>>

\* sftp.getfo(confpath, fxml); etree.parse(fxml, parser); the sofia probe
manage_config_fetch ==
    /\ pc = "idle"
    /\ pre' = Snapshot(<<>>)
    /\ trace' = <<"getfo">>
    /\ \E io \in IoOutcomes :
          IF io = "IOError" \/ ~Exists(ConfPath)
          THEN /\ result' = Done("manage_config", "IOError")
               /\ raised' = <<Raised("getfo", "IOError")>>
               /\ tree' = <<>>
               /\ UNCHANGED pc
          ELSE LET p == Parse(fs[ConfPath]) IN
               IF ~p.ok
               THEN /\ result' = Done("manage_config", "XMLSyntaxError")
                    /\ raised' = <<>>
                    /\ tree' = <<>>
                    /\ UNCHANGED pc
               ELSE /\ result' = Running("manage_config")
                    /\ raised' = <<>>
                    /\ tree' = p.tree
                    /\ pc' = IF HasSofia(p.tree) THEN "mc_wrap" ELSE "mc_locate"
    /\ backup' = 0
    /\ UNCHANGED <<fs, now, loaded, mng, call, ret>>

\* What the console can answer to `xml_locate root`.
LocateExecs == {Ran(loaded), Ran(ErrReply), Ran(OkReply), Failed}

\* A mutant: the root file is moved to the backup path before the console
\* is asked.
manage_config_locate_late ==
    /\ pc = "mc_locate"
    /\ \E ex \in LocateExecs, t \in now..MaxStamp :
          LET r == fscli_api(ex)
              p == Parse(r.value)
          IN
          /\ trace' = trace \o <<"rename">> \o Runs(r, "api xml_locate root")
          /\ fs' = RenameFile(fs, ConfPath, BackupPath(t))
          /\ IF r.kind # "return"
             THEN /\ result' = Done("manage_config", r.kind)
                  /\ raised' = Append(raised, Raised("api xml_locate root", r.kind))
                  /\ pc' = "idle"
                  /\ tree' = <<>>
                  /\ UNCHANGED <<backup, now>>
             ELSE IF ~p.ok
             THEN /\ result' = Done("manage_config", "XMLSyntaxError")
                  /\ pc' = "idle"
                  /\ tree' = <<>>
                  /\ UNCHANGED <<backup, now, raised>>
             ELSE /\ tree' = Normalize(p.tree)
                  /\ now' = t
                  /\ backup' = BackupPath(t)
                  /\ pc' = "mc_write"
                  /\ UNCHANGED <<result, raised>>
    /\ UNCHANGED <<loaded, mng, pre, call, ret>>

\* fscli.api('xml_locate root'); etree.fromstring; the normalizing loop;
\* the backup path
manage_config_locate ==
    /\ pc = "mc_locate"
    /\ \E ex \in LocateExecs, t \in now..MaxStamp :
          LET r == fscli_api(ex)
              p == Parse(r.value)
          IN
          /\ trace' = trace \o Runs(r, "api xml_locate root")
          /\ IF r.kind # "return"
             THEN /\ result' = Done("manage_config", r.kind)
                  /\ raised' = Append(raised, Raised("api xml_locate root", r.kind))
                  /\ pc' = "idle"
                  /\ tree' = <<>>
                  /\ UNCHANGED <<backup, now>>
             ELSE IF ~p.ok
             THEN /\ result' = Done("manage_config", "XMLSyntaxError")
                  /\ pc' = "idle"
                  /\ tree' = <<>>
                  /\ UNCHANGED <<backup, now, raised>>
             ELSE /\ tree' = Normalize(p.tree)
                  /\ now' = t
                  /\ backup' = BackupPath(t)
                  /\ pc' = "mc_rename"
                  /\ UNCHANGED <<result, raised>>
    /\ UNCHANGED <<fs, loaded, mng, pre, call, ret>>

\* sftp.rename(confpath, backup)
manage_config_rename ==
    /\ pc = "mc_rename"
    /\ trace' = Append(trace, "rename")
    /\ \E io \in IoOutcomes :
          IF io = "IOError" \/ ~Exists(ConfPath)
          THEN /\ result' = Done("manage_config", "IOError")
               /\ raised' = Append(raised, Raised("rename", "IOError"))
               /\ pc' = "idle"
               /\ tree' = <<>>
               /\ UNCHANGED fs
          ELSE /\ fs' = RenameFile(fs, ConfPath, backup)
               /\ pc' = "mc_write"
               /\ UNCHANGED <<result, tree, raised>>
    /\ UNCHANGED <<now, loaded, mng, backup, pre, call, ret>>

\* with sftp.open(confpath, 'w') as fxml: fxml.write(etree.tostring(...)).
\* open can fail; once it has created the file, write can fail.
manage_config_write ==
    /\ pc = "mc_write"
    /\ \E io \in {"ok", "open fails", "write fails"} :
          CASE io = "open fails" ->
                  /\ trace' = Append(trace, "open w")
                  /\ raised' = Append(raised, Raised("open w", "IOError"))
                  /\ result' = Done("manage_config", "IOError")
                  /\ pc' = "idle"
                  /\ tree' = <<>>
                  /\ UNCHANGED fs
            [] io = "write fails" ->
                  /\ trace' = trace \o <<"open w", "write">>
                  /\ raised' = Append(raised, Raised("write", "IOError"))
                  /\ result' = Done("manage_config", "IOError")
                  /\ pc' = "idle"
                  /\ tree' = <<>>
                  /\ fs' = WriteFile(fs, ConfPath, <<>>)
            [] io = "ok" ->
                  /\ trace' = trace \o <<"open w", "write">>
                  /\ fs' = WriteFile(fs, ConfPath, tostring(tree))
                  /\ pc' = "mc_wrap"
                  /\ UNCHANGED <<result, tree, raised>>
    /\ UNCHANGED <<now, loaded, mng, backup, pre, call, ret>>

\* RestoreFile(path, open): the handle keeps the path and the contents the
\* file has when the handle is built.
RestoreFile_init(path) == [path |-> path, contents |-> fs[path]]

\* the manager, with what manage_config knew when it built it: the
\* contents of the root file then (taken), whether the configuration was
\* aggregated, and the serialization of the tree it hands over (written)
Manager(rfile, etree) ==
    [etree |-> etree, file |-> rfile,
     taken |-> fs[ConfPath], aggregated |-> (backup # 0),
     written |-> tostring(etree)]

\* A mutant: the snapshot is the root file as manage_config found it.
manage_config_wrap_early ==
    /\ pc = "mc_wrap"
    /\ trace' = Append(trace, "open r")
    /\ pc' = "idle"
    /\ \E io \in IoOutcomes :
          IF io = "IOError" \/ ~Exists(ConfPath)
          THEN /\ result' = Done("manage_config", "IOError")
               /\ raised' = Append(raised, Raised("open r", "IOError"))
               /\ UNCHANGED mng
          ELSE /\ mng' = <<Manager([path |-> ConfPath, contents |-> pre.fs[ConfPath]], tree)>>
               /\ result' = Done("manage_config", "ok")
               /\ UNCHANGED raised
    /\ tree' = <<>>
    /\ UNCHANGED <<fs, now, loaded, backup, pre, call, ret>>

\* ConfigManager(RestoreFile(confpath, open=sftp.open), tree, ...)
manage_config_wrap ==
    /\ pc = "mc_wrap"
    /\ trace' = Append(trace, "open r")
    /\ pc' = "idle"
    /\ \E io \in IoOutcomes :
          IF io = "IOError" \/ ~Exists(ConfPath)
          THEN /\ result' = Done("manage_config", "IOError")
               /\ raised' = Append(raised, Raised("open r", "IOError"))
               /\ UNCHANGED mng
          ELSE /\ mng' = <<Manager(RestoreFile_init(ConfPath), tree)>>
               /\ result' = Done("manage_config", "ok")
               /\ UNCHANGED raised
    /\ tree' = <<>>
    /\ UNCHANGED <<fs, now, loaded, backup, pre, call, ret>>

-----------------------------------------------------------------------------
(* ConfigManager                                                           *)

EditedTrees(t) ==
    {[t EXCEPT !.rev = r] : r \in 0..MaxRev} \ {t}

\* a caller edits the tree through mng.root / mng.etree
Edit ==
    /\ pc = "idle"
    /\ mng # <<>>
    /\ \E t \in EditedTrees(mng[1].etree) : mng' = <<[mng[1] EXCEPT !.etree = t]>>
    /\ result' = Done("edit", "ok")
    /\ pre' = Snapshot(mng[1].etree)
    /\ trace' = <<>>
    /\ raised' = <<>>
    /\ backup' = 0
    /\ UNCHANGED <<fs, now, loaded, pc, tree, call, ret>>

\* A mutant: a failed upload is swallowed and the reload goes ahead.
commit_put_swallow ==
    /\ pc = "idle"
    /\ mng # <<>>
    /\ pre' = Snapshot(mng[1].etree)
    /\ trace' = <<"putfo">>
    /\ result' = Running("commit")
    /\ pc' = "commit_reload"
    /\ \E io \in IoOutcomes :
          IF io = "IOError"
          THEN /\ raised' = <<Raised("putfo", "IOError")>>
               /\ UNCHANGED fs
          ELSE /\ raised' = <<>>
               /\ fs' = WriteFile(fs, mng[1].file.path, tostring(mng[1].etree))
    /\ backup' = 0
    /\ UNCHANGED <<now, loaded, mng, tree, call, ret>>

\* commit, first half:
\* self.sftp.putfo(BytesIO(etree.tostring(self.etree, pretty_print=True)), path)
commit_put ==
    /\ pc = "idle"
    /\ mng # <<>>
    /\ pre' = Snapshot(mng[1].etree)
    /\ trace' = <<"putfo">>
    /\ \E io \in IoOutcomes :
          IF io = "IOError"
          THEN /\ result' = Done("commit", "IOError")
               /\ raised' = <<Raised("putfo", "IOError")>>
               /\ UNCHANGED <<fs, pc>>
          ELSE /\ fs' = WriteFile(fs, mng[1].file.path, tostring(mng[1].etree))
               /\ raised' = <<>>
               /\ result' = Running("commit")
               /\ pc' = "commit_reload"
    /\ backup' = 0
    /\ UNCHANGED <<now, loaded, mng, tree, call, ret>>

\* What the console can answer to `reloadxml`, and whether the server
\* re-read its configuration: it did if and only if it says +OK.
ReloadExecs ==
    {[ex |-> Ran(OkReply), reloaded |-> TRUE],
     [ex |-> Ran(ErrReply), reloaded |-> FALSE],
     [ex |-> Failed, reloaded |-> FALSE]}

\* A mutant: a failed reload is reported as a failed upload.
commit_reload_ioerror ==
    /\ pc = "commit_reload"
    /\ pc' = "idle"
    /\ \E e \in ReloadExecs :
          LET r == fscli_api(e.ex) IN
          /\ trace' = trace \o Runs(r, "api reloadxml")
          /\ loaded' = IF e.reloaded /\ Exists(ConfPath) THEN fs[ConfPath] ELSE loaded
          /\ result' = Done("commit", IF r.kind = "return" THEN "ok" ELSE "IOError")
          /\ raised' = IF r.kind = "return" THEN raised
                        ELSE Append(raised, Raised("api reloadxml", r.kind))
    /\ UNCHANGED <<fs, now, mng, tree, backup, pre, call, ret>>

\* commit, second half: self.fscli.api('reloadxml')
commit_reload ==
    /\ pc = "commit_reload"
    /\ pc' = "idle"
    /\ \E e \in ReloadExecs :
          LET r == fscli_api(e.ex) IN
          /\ trace' = trace \o Runs(r, "api reloadxml")
          /\ loaded' = IF e.reloaded /\ Exists(ConfPath) THEN fs[ConfPath] ELSE loaded
          /\ result' = Done("commit", IF r.kind = "return" THEN "ok" ELSE r.kind)
          /\ raised' = IF r.kind = "return" THEN raised
                        ELSE Append(raised, Raised("api reloadxml", r.kind))
    /\ UNCHANGED <<fs, now, mng, tree, backup, pre, call, ret>>

\* RestoreFile.restore(): the kept contents are written back to the path.
RestoreFile_restore(file, io) ==
    IF io = "ok" THEN WriteFile(fs, file.path, file.contents) ELSE fs

\* A mutant: revert only logs.
revert_logonly ==
    /\ pc = "idle"
    /\ mng # <<>>
    /\ pre' = Snapshot(mng[1].etree)
    /\ trace' = <<>>
    /\ raised' = <<>>
    /\ result' = Done("revert", "ok")
    /\ backup' = 0
    /\ UNCHANGED <<fs, now, loaded, mng, pc, tree, call, ret>>

\* A mutant: a restore that raised is tried a second time.
revert_retry ==
    /\ pc = "idle"
    /\ mng # <<>>
    /\ pre' = Snapshot(mng[1].etree)
    /\ \E io \in IoOutcomes, again \in IoOutcomes :
          IF io = "ok"
          THEN /\ trace' = <<"restore">>
               /\ fs' = RestoreFile_restore(mng[1].file, io)
               /\ raised' = <<>>
               /\ result' = Done("revert", io)
          ELSE /\ trace' = <<"restore", "restore">>
               /\ fs' = RestoreFile_restore(mng[1].file, again)
               /\ raised' = <<Raised("restore", io)>>
               /\ result' = Done("revert", again)
    /\ backup' = 0
    /\ UNCHANGED <<now, loaded, mng, pc, tree, call, ret>>

\* A mutant: revert parses the restored file into the manager's tree.
revert_reparse ==
    /\ pc = "idle"
    /\ mng # <<>>
    /\ pre' = Snapshot(mng[1].etree)
    /\ trace' = <<"restore">>
    /\ \E io \in IoOutcomes :
          /\ fs' = RestoreFile_restore(mng[1].file, io)
          /\ raised' = IF io = "ok" THEN <<>> ELSE <<Raised("restore", io)>>
          /\ result' = Done("revert", io)
          /\ mng' = IF io = "ok"
                    THEN <<[mng[1] EXCEPT !.etree = Parse(mng[1].file.contents).tree]>>
                    ELSE mng
    /\ backup' = 0
    /\ UNCHANGED <<now, loaded, pc, tree, call, ret>>

\* A mutant: revert makes the server reload the restored file.
revert_reload ==
    /\ pc = "idle"
    /\ mng # <<>>
    /\ pre' = Snapshot(mng[1].etree)
    /\ \E io \in IoOutcomes :
          /\ fs' = RestoreFile_restore(mng[1].file, io)
          /\ raised' = IF io = "ok" THEN <<>> ELSE <<Raised("restore", io)>>
          /\ result' = Done("revert", io)
          /\ trace' = IF io = "ok" THEN <<"restore", "api reloadxml">> ELSE <<"restore">>
          /\ loaded' = IF io = "ok" THEN mng[1].file.contents ELSE loaded
    /\ backup' = 0
    /\ UNCHANGED <<now, mng, pc, tree, call, ret>>

\* self.file.restore()
revert ==
    /\ pc = "idle"
    /\ mng # <<>>
    /\ pre' = Snapshot(mng[1].etree)
    /\ trace' = <<"restore">>
    /\ \E io \in IoOutcomes :
          /\ fs' = RestoreFile_restore(mng[1].file, io)
          /\ raised' = IF io = "ok" THEN <<>> ELSE <<Raised("restore", io)>>
          /\ result' = Done("revert", io)
    /\ backup' = 0
    /\ UNCHANGED <<now, loaded, mng, pc, tree, call, ret>>

-----------------------------------------------------------------------------
(* The specification of the manager.                                       *)

Tree(sofia, rev, text, tail) == [sofia |-> sofia, rev |-> rev, text |-> text, tail |-> tail]

\* root files the host can hold at first: a multi-file root without the
\* sofia section, a self-contained file as commit writes it, and a
\* self-contained file written by hand
InitRootFiles ==
    { <<"<", "s", "0", "n", "w", ">">>,
      tostring(Tree(TRUE, 0, "n", "n")),
      <<"<", "S", "0", "a", "w", ">", "\n">> }

\* merged views the server can have loaded at first: with the sofia
\* section, and without it
InitLoaded ==
    { <<"<", "S", "0", "m", "w", ">">>,
      <<"<", "s", "0", "b", "t", ">">> }

Init ==
    /\ \E f \in InitRootFiles : fs = WriteFile(<<>>, ConfPath, f)
    /\ now = 1
    /\ loaded \in InitLoaded
    /\ mng = <<>>
    /\ pc = "idle"
    /\ tree = <<>>
    /\ backup = 0
    /\ trace = <<>>
    /\ raised = <<>>
    /\ result = Done("none", "ok")
    /\ pre = Snapshot(<<>>)
    /\ call = NoCall
    /\ ret = NoRet

Next ==
    \/ manage_config_fetch
    \/ manage_config_locate
    \/ manage_config_rename
    \/ manage_config_write
    \/ manage_config_wrap
    \/ Edit
    \/ commit_put
    \/ commit_reload
    \/ revert

Spec == Init /\ [][Next]_vars

-----------------------------------------------------------------------------
(* ConfigManager.get_users                                                 *)

Bar == <<"|">>

\* allowed = ('domain', 'group', 'user', 'context')
Allowed == {"domain", "group", "user", "context"}

\* A mutant: only the first filter is validated.
ValidateKeys_first(kwargs) ==
    IF kwargs # <<>> /\ kwargs[1].key \notin Allowed THEN 1 ELSE 0

\* the loop over kwargs.items(): the position of the first filter whose
\* name is not allowed, 0 if every name is allowed
ValidateKeys(kwargs) ==
    IF \E i \in 1..Len(kwargs) : kwargs[i].key \notin Allowed
    THEN CHOOSE i \in 1..Len(kwargs) :
            /\ kwargs[i].key \notin Allowed
            /\ \A j \in 1..(i - 1) : kwargs[j].key \in Allowed
    ELSE 0

\* args.append('{} {}'.format(argname, value)), for every filter
FilterArgs(kwargs) == [i \in 1..Len(kwargs) |-> <<kwargs[i].key, kwargs[i].value>>]

NonIdentChars == Whitespace \cup {"|", "+", "-", "=", ":", "<", ">"}

\* namedtuple("UserEntry", names) accepts the names: identifiers, no
\* leading digit or underscore, no name twice
ValidFieldNames(names) ==
    /\ \A i \in 1..Len(names) :
          /\ names[i] # <<>>
          /\ \A k \in 1..Len(names[i]) : names[i][k] \notin NonIdentChars
          /\ \A d \in 1..Len(Digits) : names[i][1] # Digits[d]
          /\ names[i][1] # "_"
    /\ \A i, j \in 1..Len(names) : i # j => names[i] # names[j]

DomainField == <<"d", "o", "m", "a", "i", "n">>

\* list.index(x)
IndexOf(seq, x) == CHOOSE i \in 1..Len(seq) : seq[i] = x /\ \A j \in 1..(i - 1) : seq[j] # x

\* A mutant: a user of a known domain replaces the list instead of joining it.
RECURSIVE PackByDomain_replace(_, _, _)
PackByDomain_replace(users, idom, domains) ==
    IF users = <<>> THEN domains
    ELSE LET u == Head(users)
             d == u.values[idom]
             known == \E i \in 1..Len(domains) : domains[i].domain = d
         IN PackByDomain_replace(
                Tail(users), idom,
                IF known
                THEN [i \in 1..Len(domains) |->
                        IF domains[i].domain = d
                        THEN [domains[i] EXCEPT !.users = <<u>>]
                        ELSE domains[i]]
                ELSE Append(domains, [domain |-> d, users |-> <<u>>]))

\* domains.setdefault(user.domain, []).append(user), over users in order:
\* the result lists the domains in the order they were first seen
RECURSIVE PackByDomain(_, _, _)
PackByDomain(users, idom, domains) ==
    IF users = <<>> THEN domains
    ELSE LET u == Head(users)
             d == u.values[idom]
             known == \E i \in 1..Len(domains) : domains[i].domain = d
         IN PackByDomain(
                Tail(users), idom,
                IF known
                THEN [i \in 1..Len(domains) |->
                        IF domains[i].domain = d
                        THEN [domains[i] EXCEPT !.users = Append(@, u)]
                        ELSE domains[i]]
                ELSE Append(domains, [domain |-> d, users |-> <<u>>]))

UsersRaise(kind, invoked) == [kind |-> kind, value |-> <<>>, invoked |-> invoked]

\* A mutant: a row whose field count is not the header's is left out.
get_users_skip(kwargs, ex) ==
    IF ValidateKeys(kwargs) # 0
    THEN UsersRaise("ValueError", <<>>)
    ELSE
    LET cmd == [name |-> "list_users", args |-> FilterArgs(kwargs)]
        r == cli_call(ex, <<>>)
        all == SplitLines(r.value)
        res == SubSeq(all, 1, Len(all) - 2)
        names == Split(res[1], Bar)
        fits(line) == Len(Split(line, Bar)) = Len(names)
        kept == SelectSeq(Tail(res), fits)
        rows == [i \in 1..Len(kept) |-> Split(kept[i], Bar)]
        users == [i \in 1..Len(rows) |-> [fields |-> names, values |-> rows[i]]]
    IN
    IF r.kind # "return" THEN UsersRaise(r.kind, <<cmd>>)
    ELSE IF res = <<>> THEN UsersRaise("IndexError", <<cmd>>)
    ELSE IF ~ValidFieldNames(names) THEN UsersRaise("ValueError", <<cmd>>)
    ELSE IF rows # <<>> /\ \A i \in 1..Len(names) : names[i] # DomainField
         THEN UsersRaise("AttributeError", <<cmd>>)
    ELSE [kind |-> "return",
          value |-> IF rows = <<>> THEN <<>>
                    ELSE PackByDomain(users, IndexOf(names, DomainField), <<>>),
          invoked |-> <<cmd>>]

\* get_users(**kwargs) with ex what the console did: how the call ended,
\* the domain map it returned and the console commands it issued
get_users(kwargs, ex) ==
    IF ValidateKeys(kwargs) # 0
    THEN UsersRaise("ValueError", <<>>)
    ELSE
    LET cmd == [name |-> "list_users", args |-> FilterArgs(kwargs)]
        r == cli_call(ex, <<>>)
        all == SplitLines(r.value)
        res == SubSeq(all, 1, Len(all) - 2)
        names == Split(res[1], Bar)
        rows == [i \in 1..(Len(res) - 1) |-> Split(res[i + 1], Bar)]
        users == [i \in 1..Len(rows) |-> [fields |-> names, values |-> rows[i]]]
    IN
    IF r.kind # "return" THEN UsersRaise(r.kind, <<cmd>>)
    ELSE IF res = <<>> THEN UsersRaise("IndexError", <<cmd>>)
    ELSE IF ~ValidFieldNames(names) THEN UsersRaise("ValueError", <<cmd>>)
    ELSE IF \E i \in 1..Len(rows) : Len(rows[i]) # Len(names)
         THEN UsersRaise("TypeError", <<cmd>>)
    ELSE IF rows # <<>> /\ \A i \in 1..Len(names) : names[i] # DomainField
         THEN UsersRaise("AttributeError", <<cmd>>)
    ELSE [kind |-> "return",
          value |-> IF rows = <<>> THEN <<>>
                    ELSE PackByDomain(users, IndexOf(names, DomainField), <<>>),
          invoked |-> <<cmd>>]

(* The get_users specification: get_users on bounded filters and replies.  *)

FilterKeys == Allowed \cup {"limit"}

UsersKwargs ==
    {[i \in 1..Len(q) |-> [key |-> q[i], value |-> "v"]] :
        q \in DistinctSeqs(FilterKeys, MaxKw)}

UseridField == <<"u", "s", "e", "r", "i", "d">>

\* header lines: the two fields in either order, a header without the
\* domain field, and a header that names a field twice
UsersHeaders ==
    { <<UseridField, DomainField>>, <<DomainField, UseridField>>,
      <<UseridField>>, <<DomainField, DomainField>> }

\* data rows as the server prints them for the header userid|domain, and
\* two rows with a field too few and a field too many
UsersRows ==
    {<<u, d>> : u \in {<<"1">>, <<"2">>}, d \in {<<"a">>, <<"b">>}}
      \cup { << <<"1">> >>, << <<"1">>, <<"a">>, <<"x">> >> }

\* the reply: header, data rows, an empty line and +OK
UsersReply(header, rows) ==
    Join(<<Join(header, Bar)>> \o [i \in 1..Len(rows) |-> Join(rows[i], Bar)], <<"\n">>)
      \o <<"\n", "\n", "+", "O", "K", "\n">>

\* a reply of two lines: a count and +OK
ShortReply == <<"0", "\n", "+", "O", "K", "\n">>

\* what the console does when it is not listing a table
UsersExecs == {Ran(OkReply), Ran(ShortReply), Ran(ErrReply), Ran(<<>>), Failed}

\* the calls: the console lists a table of `header` and `rows`, or does
\* one of UsersExecs (header and rows are then empty)
UsersCalls ==
    {[op |-> "get_users", kwargs |-> kw, header |-> h, rows |-> rows,
      ex |-> Ran(UsersReply(h, rows))] :
        kw \in UsersKwargs, h \in UsersHeaders, rows \in SeqsUpTo(UsersRows, MaxUsers)}
      \cup
    {[op |-> "get_users", kwargs |-> kw, header |-> <<>>, rows |-> <<>>, ex |-> ex] :
        kw \in UsersKwargs, ex \in UsersExecs}

UsersInit ==
    /\ MgrIdle
    /\ call \in UsersCalls
    /\ ret = NoRet

\* `domains` is a plain dict, and the interpreters the package declares
\* (Python 2.7 and 3.5) do not fix the order in which a dict lists its
\* keys: a caller can see the entries in any order
DictViews(items) ==
    {[i \in 1..Len(items) |-> items[p[i]]] :
        p \in {q \in [1..Len(items) -> 1..Len(items)] :
                  \A i, j \in 1..Len(items) : i # j => q[i] # q[j]}}

\* one call of get_users; `inserted` keeps the entries in the order the
\* loop created them, `value` is the dict as the caller lists it
GetUsers ==
    /\ ret = NoRet
    /\ LET r == get_users(call.kwargs, call.ex)
       IN \E view \in DictViews(r.value) :
             ret' = [kind |-> r.kind, value |-> view,
                     inserted |-> r.value, invoked |-> r.invoked]
    /\ UNCHANGED <<call, mgrvars>>

UsersNext == GetUsers

UsersSpec == UsersInit /\ [][UsersNext]_vars

-----------------------------------------------------------------------------
(* ConfigManager.sofia_status                                              *)

Tab == <<"\t">>

Rule == <<"=", "=", "=">>

NameCol == <<"n", "a", "m", "e">>

TypeCol == <<"t", "y", "p", "e">>

ProfileWord == <<"p", "r", "o", "f", "i", "l", "e">>

GatewayWord == <<"g", "a", "t", "e", "w", "a", "y">>

AliasWord == <<"a", "l", "i", "a", "s">>

Colons == <<":", ":">>

RemoveAt(seq, i) == SubSeq(seq, 1, i - 1) \o SubSeq(seq, i + 1, Len(seq))

Min(a, b) == IF a < b THEN a ELSE b

\* {k.lower(): v for k, v in zip(colnames, fields)}: the pairs up to the
\* shorter of the two, a later pair replacing an earlier one of the same key
ZipDict(colnames, fields) ==
    LET n == Min(Len(colnames), Len(fields)) IN
    [k \in {Lower(colnames[i]) : i \in 1..n} |->
        fields[CHOOSE i \in 1..n :
                  /\ Lower(colnames[i]) = k
                  /\ \A j \in (i + 1)..n : Lower(colnames[j]) # k]]

\* d[key] = value
Put(d, key, value) == (key :> value) @@ d

\* row.pop('type'): the row without that key
Without(d, key) == [k \in DOMAIN d \ {key} |-> d[k]]

EmptyStatus == [kind |-> "return", profiles |-> <<>>, gateways |-> <<>>, aliases |-> <<>>]

StatusRaise(kind) == [kind |-> kind, profiles |-> <<>>, gateways |-> <<>>, aliases |-> <<>>]

\* A mutant: the two halves of a gateway's name are taken the wrong way round.
StoreGateway_swapped(acc, name, row) ==
    LET parts == Split(name, Colons) IN
    IF Len(parts) # 2 THEN StatusRaise("ValueError")
    ELSE [acc EXCEPT !.gateways = Put(@, parts[1], Put(row, ProfileWord, parts[2]))]

\* profname, gwname = name.split("::"); row['profile'] = profname;
\* gateways[gwname] = row
StoreGateway(acc, name, row) ==
    LET parts == Split(name, Colons) IN
    IF Len(parts) # 2 THEN StatusRaise("ValueError")
    ELSE [acc EXCEPT !.gateways = Put(@, parts[2], Put(row, ProfileWord, parts[1]))]

\* A mutant: a row of a type that is not known is kept with the aliases.
StatusRow_default(acc, line, iname, colnames) ==
    LET split == Split(line, Tab)
        fields == [i \in 1..Len(split) |-> Strip(split[i])]
        name == fields[iname]
        row == ZipDict(colnames, RemoveAt(fields, iname))
        tp == row[TypeCol]
        rest == Without(row, TypeCol)
    IN
    IF iname > Len(fields) THEN StatusRaise("IndexError")
    ELSE IF TypeCol \notin DOMAIN row THEN StatusRaise("KeyError")
    ELSE IF tp = ProfileWord THEN [acc EXCEPT !.profiles = Put(@, name, rest)]
    ELSE IF tp = GatewayWord THEN StoreGateway(acc, name, rest)
    ELSE [acc EXCEPT !.aliases = Put(@, name, rest)]

\* the body of `for line in lines`, on the maps built so far
StatusRow(acc, line, iname, colnames) ==
    LET split == Split(line, Tab)
        fields == [i \in 1..Len(split) |-> Strip(split[i])]
        name == fields[iname]
        row == ZipDict(colnames, RemoveAt(fields, iname))
        tp == row[TypeCol]
        rest == Without(row, TypeCol)
    IN
    IF iname > Len(fields) THEN StatusRaise("IndexError")
    ELSE IF TypeCol \notin DOMAIN row THEN StatusRaise("KeyError")
    ELSE IF tp = ProfileWord THEN [acc EXCEPT !.profiles = Put(@, name, rest)]
    ELSE IF tp = GatewayWord THEN StoreGateway(acc, name, rest)
    ELSE IF tp = AliasWord THEN [acc EXCEPT !.aliases = Put(@, name, rest)]
    ELSE acc

RECURSIVE StatusRows(_, _, _, _)
StatusRows(acc, lines, iname, colnames) ==
    IF lines = <<>> \/ acc.kind # "return" THEN acc
    ELSE StatusRows(StatusRow(acc, Head(lines), iname, colnames), Tail(lines), iname, colnames)

NoRule(line) == ~Contains(line, Rule)

\* sofia_status() with ex what the console did for `sofia status`
sofia_status(ex) ==
    LET r == fscli_api(ex)
        kept == SelectSeq(SplitLines(r.value), NoRule)
        lines == Front(kept)
        header == SplitWS(lines[1])
        colnames == [i \in 1..Len(header) |-> Lower(header[i])]
        iname == IndexOf(colnames, NameCol)
    IN
    IF r.kind # "return" THEN StatusRaise(r.kind)
    ELSE IF kept = <<>> \/ lines = <<>> THEN StatusRaise("IndexError")
    ELSE IF \A i \in 1..Len(colnames) : colnames[i] # NameCol THEN StatusRaise("ValueError")
    ELSE StatusRows(EmptyStatus, Tail(lines), iname, RemoveAt(colnames, iname))

(* The sofia_status specification: sofia_status on bounded status tables.  *)

\* Rows the server can print.  A profile or alias row has a name; a gateway
\* row is named profile::gateway; `parts` are the pieces of the name that
\* the server joins with "::".
ProfileRows ==
    {[type |-> ProfileWord, parts |-> <<n>>, data |-> <<"d">>] : n \in { <<"p">>, <<"q">> }}
      \cup {[type |-> ProfileWord, parts |-> << <<"p">> >>, data |-> <<"e">>]}

GatewayRows == {[type |-> GatewayWord, parts |-> <<n, g>>, data |-> <<"d">>] :
                   n \in { <<"p">>, <<"q">> }, g \in { <<"g">>, <<"h">> }}

AliasRows == {[type |-> AliasWord, parts |-> <<n>>, data |-> <<"d">>] :
                 n \in { <<"p">>, <<"a">> }}

\* rows that are not well formed: a type sofia_status does not know, a
\* gateway without the separator and one with two separators
OddRows ==
    { [type |-> <<"x">>, parts |-> << <<"p">> >>, data |-> <<"d">>],
      [type |-> GatewayWord, parts |-> << <<"g">> >>, data |-> <<"d">>],
      [type |-> GatewayWord, parts |-> << <<"p">>, <<"g">>, <<"h">> >>, data |-> <<"d">>] }

StatusRowSet == ProfileRows \cup GatewayRows \cup AliasRows \cup OddRows

\* one line of the table: Name, Type, Data, State, tab-separated, the name
\* right-aligned with spaces as the server prints it
RenderRow(row) ==
    <<" ">> \o Join(row.parts, Colons) \o Tab \o row.type \o Tab \o row.data
        \o Tab \o <<"R", " ", "0">>

StatusHeader ==
    <<" ", "N", "a", "m", "e", "\t", "T", "y", "p", "e", "\t",
      "D", "a", "t", "a", "\t", "S", "t", "a", "t", "e">>

\* header, rule, rows, rule, summary line
RenderStatus(rows) ==
    Join(<<StatusHeader, Rule \o Rule>>
           \o [i \in 1..Len(rows) |-> RenderRow(rows[i])]
           \o <<Rule \o Rule, <<Digits[Len(rows) + 1], " ", "r", "o", "w", "s">> >>,
         <<"\n">>) \o <<"\n">>

StatusCalls ==
    {[op |-> "sofia_status", rows |-> rows, ex |-> Ran(RenderStatus(rows))] :
        rows \in SeqsUpTo(StatusRowSet, MaxRows)}
      \cup {[op |-> "sofia_status", rows |-> <<>>, ex |-> ex] :
              ex \in {Failed, Ran(ErrReply), Ran(<<>>), Ran(OkReply)}}

StatusInit ==
    /\ MgrIdle
    /\ call \in StatusCalls
    /\ ret = NoRet

SofiaStatus ==
    /\ ret = NoRet
    /\ ret' = sofia_status(call.ex)
    /\ UNCHANGED <<call, mgrvars>>

StatusNext == SofiaStatus

StatusSpec == StatusInit /\ [][StatusNext]_vars

-----------------------------------------------------------------------------
(* Properties of the manager (specification Spec).                         *)

\* the root file the operation in progress (or the last one) found
RootAtStart == pre.fs[ConfPath]

MarkerAtStart ==
    /\ ConfPath \in DOMAIN pre.fs
    /\ Parse(RootAtStart).ok
    /\ HasSofia(Parse(RootAtStart).tree)

NoMarkerAtStart ==
    /\ ConfPath \in DOMAIN pre.fs
    /\ Parse(RootAtStart).ok
    /\ ~HasSofia(Parse(RootAtStart).tree)

\* C1: after a successful revert() the file at the managed path holds the
\* bytes it held when the RestoreFile snapshot was taken, whatever edits and
\* commits (successful or failed) came in between, and no other file is
\* touched; if the file still held the snapshot bytes, nothing changes.
C1_RevertRestoresSnapshot ==
    result = Done("revert", "ok") =>
        /\ Exists(ConfPath)
        /\ fs[ConfPath] = mng[1].taken
        /\ fs = WriteFile(pre.fs, ConfPath, mng[1].taken)
        /\ (ConfPath \in DOMAIN pre.fs /\ RootAtStart = mng[1].taken => fs = pre.fs)

\* C1's case: a successful revert of a file that a commit had rewritten
C1_Witness ==
    /\ result = Done("revert", "ok")
    /\ ConfPath \in DOMAIN pre.fs
    /\ RootAtStart # mng[1].taken
    /\ fs[ConfPath] = mng[1].taken

\* C2: when commit() returns, the managed path holds the pretty-printed
\* serialization of the tree as it was when commit was called, the reload
\* was issued after the upload, and the server has loaded that content.
C2_CommitUploadsThenReloads ==
    result = Done("commit", "ok") =>
        /\ Exists(ConfPath)
        /\ fs[ConfPath] = tostring(pre.etree)
        /\ Last(fs[ConfPath]) = "\n"
        /\ trace = <<"putfo", "api reloadxml">>
        /\ loaded = fs[ConfPath]

\* C2's case: a successful commit of an edited tree
C2_Witness ==
    /\ result = Done("commit", "ok")
    /\ fs # pre.fs
    /\ loaded # pre.loaded

\* C3: a failed commit() is in one of two states, told apart by the error:
\* IOError, with the remote files and the server as before and no reload
\* issued; or CLIError / CLIConnectionError, with the new serialization at
\* the managed path and the server's loaded configuration as before.
C3_FailedCommitStates ==
    (result.op = "commit" /\ result.status \notin {"ok", "running"}) =>
        \/ /\ result.status = "IOError"
           /\ fs = pre.fs
           /\ loaded = pre.loaded
           /\ trace = <<"putfo">>
        \/ /\ result.status \in {"CLIError", "CLIConnectionError"}
           /\ fs = WriteFile(pre.fs, ConfPath, tostring(pre.etree))
           /\ loaded = pre.loaded
           /\ trace = <<"putfo", "api reloadxml">>

\* C3's case: the upload went through and the reload failed
C3_Witness ==
    /\ result = Done("commit", "CLIError")
    /\ fs # pre.fs
    /\ loaded # fs[ConfPath]

\* C4: when the fetched root file holds the sofia section, manage_config
\* issues no console command, renames nothing and writes nothing: every
\* remote file is as before and no backup appears, at every step and on
\* every repetition.
C4_MarkerMeansNoRewrite ==
    (result.op = "manage_config" /\ MarkerAtStart) =>
        /\ fs = pre.fs
        /\ loaded = pre.loaded
        /\ trace \in {<<"getfo">>, <<"getfo", "open r">>}

\* C4's case: manage_config has returned a manager for a self-contained
\* root file that is not in the form commit writes
C4_Witness ==
    /\ result = Done("manage_config", "ok")
    /\ MarkerAtStart
    /\ mng # <<>>
    /\ fs[ConfPath] # tostring(mng[1].etree)

\* C5: with the sofia section absent and every step succeeding, the root
\* file is renamed to the backup path before the merged tree is written; at
\* the end the backup holds the original bytes and the canonical path the
\* serialization of the normalized merged tree.  Between the rename and the
\* write no file is at the canonical path and the backup holds the original.
C5_RenameThenWrite ==
    /\ (result = Done("manage_config", "ok") /\ NoMarkerAtStart) =>
          /\ trace = <<"getfo", "api xml_locate root", "rename", "open w", "write", "open r">>
          /\ Exists(backup) /\ backup # ConfPath
          /\ fs[backup] = RootAtStart
          /\ Exists(ConfPath)
          /\ mng[1].etree = Normalize(Parse(pre.loaded).tree)
          /\ fs[ConfPath] = tostring(mng[1].etree)
    /\ pc = "mc_write" =>
          /\ ~Exists(ConfPath)
          /\ Exists(backup)
          /\ fs[backup] = RootAtStart

\* C5's case: an aggregation that went through
C5_Witness ==
    /\ result = Done("manage_config", "ok")
    /\ NoMarkerAtStart
    /\ Exists(backup)
    /\ fs[ConfPath] # RootAtStart
    /\ Parse(pre.loaded).tree # Normalize(Parse(pre.loaded).tree)

\* how often a remote call appears in the trace
Count(seq, x) == Cardinality({i \in 1..Len(seq) : seq[i] = x})

RemoteSteps ==
    {"getfo", "api xml_locate root", "rename", "open w", "write", "open r",
     "putfo", "api reloadxml", "restore"}

\* C12: no operation retries or swallows a failure.  No remote call is made
\* twice in one operation: a console call runs its command once, a commit
\* uploads once and reloads at most once, a revert restores once.  At most
\* one call of an operation raises; it is the last call the operation
\* makes, and the operation ends with that call's error.  An operation is
\* still running, or ends without error, only if none of its calls raised.
C12_FailFast ==
    /\ \A step \in RemoteSteps : Count(trace, step) <= 1
    /\ Len(raised) <= 1
    /\ pc # "idle" => (raised = <<>> /\ result.status = "running")
    /\ raised # <<>> =>
          /\ pc = "idle"
          /\ raised[1].step = Last(trace)
          /\ result.status = raised[1].error
    /\ (pc = "idle" /\ raised = <<>>) => result.status \in {"ok", "XMLSyntaxError"}
    /\ (pc = "idle" /\ result.op = "commit") =>
          /\ trace \in {<<"putfo">>, <<"putfo", "api reloadxml">>}
          /\ (trace = <<"putfo">>) <=> (result.status = "IOError")
    /\ result.op = "revert" => trace = <<"restore">>

\* C12's case: a commit whose upload went through and whose reload raised
C12_Witness ==
    /\ pc = "idle"
    /\ result = Done("commit", "CLIConnectionError")
    /\ trace = <<"putfo", "api reloadxml">>
    /\ raised = <<Raised("api reloadxml", "CLIConnectionError")>>
    /\ fs[ConfPath] = tostring(mng[1].etree)
    /\ loaded # fs[ConfPath]

\* C13: revert leaves the manager's tree as it was.  After a revert the
\* tree is the one the revert found, edits included, while the file holds
\* the snapshot bytes; a commit that succeeds directly after a successful
\* revert writes that tree, edits included, to the file again.
C13_RevertKeepsTree ==
    /\ (pc = "idle" /\ result.op = "revert") => mng[1].etree = pre.etree
    /\ (pc = "idle" /\ result = Done("revert", "ok")) =>
          fs[mng[1].file.path] = mng[1].file.contents
    /\ (pc = "idle" /\ result = Done("commit", "ok") /\ pre.reverted) =>
          /\ mng[1].etree = pre.etree
          /\ fs[mng[1].file.path] = tostring(pre.etree)

\* C13's case: the tree was edited and committed, the revert put the
\* snapshot back, and the commit after it has written the edits again
C13_Witness ==
    /\ pc = "idle"
    /\ result = Done("commit", "ok")
    /\ pre.reverted
    /\ pre.fs[ConfPath] = mng[1].file.contents
    /\ pre.loaded = tostring(mng[1].etree)
    /\ Parse(mng[1].file.contents).tree # mng[1].etree
    /\ fs[ConfPath] = tostring(mng[1].etree)
    /\ fs[ConfPath] # pre.fs[ConfPath]

\* the manager in hand was built by a manage_config that aggregated
Aggregated == mng # <<>> /\ mng[1].aggregated

\* C15: the snapshot is taken after the aggregation.  A manager built by an
\* aggregating manage_config keeps as its snapshot the merged document that
\* manage_config wrote, not the root file manage_config found, and every
\* later revert that succeeds leaves that merged document at the canonical
\* path.  When manage_config returns, the root file it found is at the
\* backup path and the merged document at the canonical path.  (The two
\* can be the same bytes: a server whose merged view has no sofia section
\* makes manage_config aggregate again what it aggregated before.)
C15_SnapshotAfterAggregation ==
    Aggregated =>
        /\ mng[1].file.contents = mng[1].written
        /\ mng[1].taken = mng[1].written
        /\ (pc = "idle" /\ result = Done("revert", "ok")) =>
              fs[ConfPath] = mng[1].written
        /\ (pc = "idle" /\ result = Done("manage_config", "ok")) =>
              /\ backup # 0
              /\ fs[backup] = pre.fs[ConfPath]
              /\ fs[ConfPath] = mng[1].written

\* C15's case: after an aggregation, an edit and a commit, a revert has put
\* the merged document back, while a root file without the sofia section
\* is at a backup path only
C15_Witness ==
    /\ Aggregated
    /\ pc = "idle"
    /\ result = Done("revert", "ok")
    /\ ConfPath \in DOMAIN pre.fs
    /\ pre.fs[ConfPath] = tostring(mng[1].etree)
    /\ pre.fs[ConfPath] # mng[1].written
    /\ fs[ConfPath] = mng[1].written
    /\ HasSofia(Parse(fs[ConfPath]).tree)
    /\ \E b \in DOMAIN fs \ {ConfPath} : ~HasSofia(Parse(fs[b]).tree)

\* manage_config has ended because its console query raised
LocateFailed ==
    /\ pc = "idle"
    /\ result.op = "manage_config"
    /\ raised # <<>>
    /\ raised[1].step = "api xml_locate root"

Mutations == {"rename", "open w", "write"}

\* C16: with the sofia section absent, manage_config asks the console for
\* the merged configuration before it changes anything on the host: no
\* rename, open or write precedes the query in any trace, and when the
\* query raises (CLIConnectionError or CLIError) manage_config has only
\* read: the files are those it found, the root file without the section
\* at the canonical path and nothing new beside it, no backup path was
\* computed and the caller holds the manager it held before.
C16_QueryBeforeMutation ==
    /\ \A i \in 1..Len(trace) :
          trace[i] \in Mutations =>
              \E j \in 1..(i - 1) : trace[j] = "api xml_locate root"
    /\ LocateFailed =>
          /\ result.status \in {"CLIError", "CLIConnectionError"}
          /\ result.status = raised[1].error
          /\ trace = <<"getfo", "api xml_locate root">>
          /\ fs = pre.fs
          /\ Exists(ConfPath)
          /\ ~HasSofia(Parse(fs[ConfPath]).tree)
          /\ backup = 0
          /\ tree = <<>>
          /\ mng = pre.mng

\* C16's case: the first manage_config on a root file without the sofia
\* section, the console answering -ERR
C16_Witness ==
    /\ LocateFailed
    /\ result.status = "CLIError"
    /\ mng = <<>>
    /\ DOMAIN fs = {ConfPath}
    /\ ~HasSofia(Parse(fs[ConfPath]).tree)

ConsoleSteps == {"api xml_locate root", "api reloadxml"}

\* C17: revert issues no console command and so never makes the server
\* reload.  The trace of a revert has no console call and the server has
\* loaded after it what it had loaded before; after a revert that follows
\* a commit, the file holds the snapshot bytes while the server still has
\* the committed configuration; a later commit that succeeds makes the
\* server load the file again.
C17_RevertDoesNotReload ==
    /\ (pc = "idle" /\ result.op = "revert") =>
          /\ \A i \in 1..Len(trace) : trace[i] \notin ConsoleSteps
          /\ loaded = pre.loaded
    /\ (pc = "idle" /\ result = Done("revert", "ok")
          /\ ConfPath \in DOMAIN pre.fs /\ pre.loaded = pre.fs[ConfPath]) =>
          /\ fs[ConfPath] = mng[1].file.contents
          /\ loaded = pre.fs[ConfPath]
    /\ (pc = "idle" /\ result = Done("commit", "ok") /\ pre.reverted) =>
          loaded = fs[ConfPath]

\* C17's case: an edited tree was committed and loaded, and the revert
\* after it has put the snapshot bytes back: the server has the committed
\* configuration, the file has not
C17_Witness ==
    /\ pc = "idle"
    /\ result = Done("revert", "ok")
    /\ ConfPath \in DOMAIN pre.fs
    /\ pre.fs[ConfPath] = tostring(mng[1].etree)
    /\ pre.loaded = pre.fs[ConfPath]
    /\ loaded = tostring(mng[1].etree)
    /\ fs[ConfPath] = mng[1].file.contents
    /\ fs[ConfPath] # loaded

-----------------------------------------------------------------------------
(* Properties of cli.__call__ (specification CliSpec).                     *)

Called == call.op = "cli" /\ ret.kind # "none"

Trimmed == Strip(call.ex.out)

\* the text after the last newline of s
RECURSIVE LastLineOf(_)
LastLineOf(s) ==
    IF \E i \in 1..Len(s) : s[i] = "\n"
    THEN LastLineOf(Tail(s))
    ELSE s

LastLineHasMarker ==
    /\ ~call.ex.raised
    /\ Trimmed # <<>>
    /\ StartsWith(LastLineOf(Trimmed), ERR)

AnyPredTrue == \E i \in 1..Len(call.erroron) : ApplyPred(call.erroron[i], Trimmed)

\* C7: when the execution produced output and the last line of the trimmed
\* output begins with -ERR, the call raises CLIError whose message is the
\* whole trimmed output, so it contains the text after the marker, and
\* nothing is returned.
C7_ErrMarkerRaises ==
    (Called /\ LastLineHasMarker) =>
        /\ ret.kind = "CLIError"
        /\ ret.msg = Trimmed
        /\ Contains(ret.msg, SubSeq(LastLineOf(Trimmed), Len(ERR) + 1, Len(LastLineOf(Trimmed))))
        /\ ret.value = <<>>

\* C7's case: two lines of output, the last one -ERR with text after it,
\* and whitespace around the output
C7_Witness ==
    /\ Called
    /\ LastLineHasMarker
    /\ Len(SplitLines(Trimmed)) = 2
    /\ Len(LastLineOf(Trimmed)) > Len(ERR)
    /\ Trimmed # call.ex.out
    /\ ret.kind = "CLIError"

\* C8: when the execution itself fails, the call raises CLIConnectionError
\* with the transport's message, never a plain CLIError and never a value,
\* and neither the -ERR test nor any predicate is evaluated.
C8_TransportFailure ==
    (Called /\ call.ex.raised) =>
        /\ ret.kind = "CLIConnectionError"
        /\ ret.msg = call.ex.err
        /\ ret.value = <<>>
        /\ ~ret.errchecked
        /\ ret.evaluated = <<>>

\* C8's case: a failed execution of a call that passed predicates
C8_Witness ==
    /\ Called
    /\ call.ex.raised
    /\ Len(call.erroron) = MaxPreds
    /\ ret.kind = "CLIConnectionError"

\* C9: the call returns, and then the trimmed output, exactly when the
\* execution succeeded, the last line does not begin with -ERR and no
\* predicate is true of the output; if any predicate is true of the output
\* the call raises CLIError, however many predicates there are and in
\* whatever order.
C9_ReturnIffClean ==
    Called =>
        /\ ret.kind = "return" <=> (~call.ex.raised /\ ~LastLineHasMarker /\ ~AnyPredTrue)
        /\ ret.kind = "return" => ret.value = Trimmed
        /\ (~call.ex.raised /\ AnyPredTrue) => ret.kind = "CLIError"

\* C9's case: of two predicates only the second is true of the output
C9_Witness ==
    /\ Called
    /\ ~call.ex.raised
    /\ ~LastLineHasMarker
    /\ Len(call.erroron) = 2
    /\ ~ApplyPred(call.erroron[1], Trimmed)
    /\ ApplyPred(call.erroron[2], Trimmed)
    /\ ret.kind = "CLIError"

\* a line of the trimmed output other than the last begins with -ERR
MarkerBeforeLast ==
    /\ ~call.ex.raised
    /\ \E i \in 1..Len(Trimmed) :
          /\ (i = 1 \/ Trimmed[i - 1] = "\n")
          /\ StartsWith(SubSeq(Trimmed, i, Len(Trimmed)), ERR)
          /\ \E j \in i..Len(Trimmed) : Trimmed[j] = "\n"

\* C18: the -ERR test looks at the last line of the trimmed output only,
\* and comes before the predicates.  Output with a line beginning with -ERR
\* that is not the last line, and no predicate true of it, is returned;
\* empty output is returned as the empty string unless a predicate is true
\* of it; when the last line begins with -ERR the call raises CLIError and
\* no predicate has been applied; and a call that raises CLIError without
\* having applied a predicate is one whose last line begins with -ERR.
C18_LastLineOnly ==
    (Called /\ ~call.ex.raised) =>
        /\ ret.errchecked
        /\ (MarkerBeforeLast /\ ~LastLineHasMarker /\ ~AnyPredTrue) =>
              (ret.kind = "return" /\ ret.value = Trimmed)
        /\ (Trimmed = <<>>) =>
              /\ ~AnyPredTrue => (ret.kind = "return" /\ ret.value = <<>>)
              /\ AnyPredTrue => (ret.kind = "CLIError" /\ ret.evaluated # <<>>)
        /\ LastLineHasMarker => (ret.kind = "CLIError" /\ ret.evaluated = <<>>)
        /\ (ret.kind = "CLIError" /\ ret.evaluated = <<>>) => LastLineHasMarker

\* C18's case: the first of two lines begins with -ERR, the last does not,
\* and the one predicate passed is false of the output
C18_Witness ==
    /\ Called
    /\ MarkerBeforeLast
    /\ ~LastLineHasMarker
    /\ Len(call.erroron) = 1
    /\ ~AnyPredTrue
    /\ ret.kind = "return"
    /\ ret.evaluated = call.erroron
    /\ Contains(ret.value, ERR)

-----------------------------------------------------------------------------
(* Properties of get_users (specification UsersSpec).                      *)

UsersCalled == call.op = "get_users" /\ ret.kind # "none"

\* C6: a filter name outside {domain, group, user, context}, at any
\* position and among any number of valid names, makes get_users raise
\* ValueError without a console command having been issued.
C6_BadFilterNoCommand ==
    (UsersCalled /\ \E i \in 1..Len(call.kwargs) : call.kwargs[i].key \notin Allowed) =>
        /\ ret.kind = "ValueError"
        /\ ret.invoked = <<>>
        /\ ret.value = <<>>

\* C6's case: the invalid name comes last, after a valid one
C6_Witness ==
    /\ UsersCalled
    /\ Len(call.kwargs) = 2
    /\ call.kwargs[1].key \in Allowed
    /\ call.kwargs[2].key \notin Allowed
    /\ ret.kind = "ValueError"

\* get_users has run, with allowed filters, on the table of call.header
\* and call.rows
TableListed ==
    /\ UsersCalled
    /\ call.header # <<>>
    /\ \A i \in 1..Len(call.kwargs) : call.kwargs[i].key \in Allowed

\* the header names each field once and has a domain field
ValidHeader ==
    /\ \A i, j \in 1..Len(call.header) : i # j => call.header[i] # call.header[j]
    /\ \E i \in 1..Len(call.header) : call.header[i] = DomainField

\* every data row has as many fields as the header
RowsMatchHeader == \A i \in 1..Len(call.rows) : Len(call.rows[i]) = Len(call.header)

\* the domain field of data row i
RowDomain(i) == call.rows[i][CHOOSE k \in 1..Len(call.header) : call.header[k] = DomainField]

\* the record of data row i: the header's names, the row's values
RowRecord(i) == [fields |-> call.header, values |-> call.rows[i]]

\* the records of the rows of domain d, in input order
RECURSIVE RecordsOf(_, _)
RecordsOf(d, i) ==
    IF i > Len(call.rows) THEN <<>>
    ELSE (IF RowDomain(i) = d THEN <<RowRecord(i)>> ELSE <<>>) \o RecordsOf(d, i + 1)

RECURSIVE TotalUsers(_)
TotalUsers(entries) ==
    IF entries = <<>> THEN 0 ELSE Len(Head(entries).users) + TotalUsers(Tail(entries))

\* the first data row of domain d
FirstRowOf(d) == CHOOSE i \in 1..Len(call.rows) :
                    RowDomain(i) = d /\ \A j \in 1..(i - 1) : RowDomain(j) # d

\* R records in all, each with the header's names, under its own domain,
\* every domain of the table once, records of a domain in input order
RecordsGrouped ==
    /\ ret.kind = "return"
    /\ Len(ret.invoked) = 1
    /\ TotalUsers(ret.value) = Len(call.rows)
    /\ \A k, l \in 1..Len(ret.value) : k # l => ret.value[k].domain # ret.value[l].domain
    /\ {ret.value[k].domain : k \in 1..Len(ret.value)} = {RowDomain(i) : i \in 1..Len(call.rows)}
    /\ \A k \in 1..Len(ret.value) :
          /\ ret.value[k].users = RecordsOf(ret.value[k].domain, 1)
          /\ \A u \in 1..Len(ret.value[k].users) :
                ret.value[k].users[u].fields = call.header

\* the caller sees the domains in the order the table first names them
DomainsFirstSeen ==
    \A k, l \in 1..Len(ret.value) :
        k < l => FirstRowOf(ret.value[k].domain) < FirstRowOf(ret.value[l].domain)

ConsoleAnswered ==
    /\ UsersCalled
    /\ \A i \in 1..Len(call.kwargs) : call.kwargs[i].key \in Allowed
    /\ ~call.ex.raised

\* the lines of the trimmed output, counted by its newlines
OutputLines ==
    LET out == Strip(call.ex.out) IN
    IF out = <<>> THEN 0 ELSE 1 + Cardinality({i \in 1..Len(out) : out[i] = "\n"})

\* a data row of the table has more or fewer fields than the header
RowMismatch ==
    /\ call.header # <<>>
    /\ \E i \in 1..Len(call.rows) : Len(call.rows[i]) # Len(call.header)

\* C19: get_users returns no partial or malformed map.  When the output has
\* fewer than three lines, so that no header is left once the two trailer
\* lines are dropped, or when a data row's field count differs from the
\* header's, get_users raises, returns nothing, and has issued exactly one
\* console command; and a map it returns has a record for every data row,
\* each with as many values as the header has names.
C19_NoPartialResult ==
    ConsoleAnswered =>
        /\ (OutputLines < 3 \/ RowMismatch) =>
              /\ ret.kind \notin {"return", "none"}
              /\ ret.value = <<>>
              /\ Len(ret.invoked) = 1
              /\ ret.invoked[1].name = "list_users"
        /\ (ret.kind = "return" /\ call.header # <<>>) =>
              /\ TotalUsers(ret.value) = Len(call.rows)
              /\ \A k \in 1..Len(ret.value) : \A u \in 1..Len(ret.value[k].users) :
                    Len(ret.value[k].users[u].values) = Len(ret.value[k].users[u].fields)

\* C19's case: under a filter, a table of two rows whose second row has a
\* field too many
C19_Witness ==
    /\ ConsoleAnswered
    /\ call.kwargs # <<>>
    /\ ValidHeader
    /\ Len(call.rows) = 2
    /\ Len(call.rows[1]) = Len(call.header)
    /\ Len(call.rows[2]) > Len(call.header)
    /\ ret.kind = "TypeError"
    /\ Len(ret.invoked) = 1

-----------------------------------------------------------------------------
(* Properties of sofia_status (specification StatusSpec).                  *)

\* sofia_status has run on the table rendered from call.rows
TableParsed ==
    /\ call.op = "sofia_status"
    /\ ret.kind # "none"
    /\ call.ex = Ran(RenderStatus(call.rows))

RowsOfType(word) == {i \in 1..Len(call.rows) : call.rows[i].type = word}

\* every row is a profile, a gateway named profile::gateway, or an alias
WellFormedTable == \A i \in 1..Len(call.rows) : call.rows[i] \in ProfileRows \cup GatewayRows \cup AliasRows

\* the name a row is stored under: the gateway part of a gateway's name,
\* the whole name otherwise
StoredName(row) == row.parts[Len(row.parts)]

\* no two rows of one type are stored under the same name
DistinctNames ==
    \A i, j \in 1..Len(call.rows) :
        (i # j /\ call.rows[i].type = call.rows[j].type)
            => StoredName(call.rows[i]) # StoredName(call.rows[j])

\* each gateway in the result has the profile of a gateway row of that name
GatewayProfilesFromNames ==
    \A g \in DOMAIN ret.gateways :
        \E i \in RowsOfType(GatewayWord) :
            /\ call.rows[i].parts[2] = g
            /\ ProfileWord \in DOMAIN ret.gateways[g]
            /\ ret.gateways[g][ProfileWord] = call.rows[i].parts[1]

SizesMatchRows ==
    /\ ret.kind = "return"
    /\ Cardinality(DOMAIN ret.profiles) = Cardinality(RowsOfType(ProfileWord))
    /\ Cardinality(DOMAIN ret.gateways) = Cardinality(RowsOfType(GatewayWord))
    /\ Cardinality(DOMAIN ret.aliases) = Cardinality(RowsOfType(AliasWord))

\* C10 as stated: for every well-formed table with N profile rows, M
\* gateway rows and K alias rows, the three maps have sizes N, M and K and
\* every gateway's profile is the part of its name before "::".
C10_SizesAsStated ==
    (TableParsed /\ WellFormedTable) => (SizesMatchRows /\ GatewayProfilesFromNames)

\* C10, amended: the same, for tables in which no two rows of one type are
\* stored under the same name (gateways are stored under the part of the
\* name after "::"); then every gateway row is found under its gateway name
\* with its own profile.
C10_SizesForDistinctNames ==
    (TableParsed /\ WellFormedTable /\ DistinctNames) =>
        /\ SizesMatchRows
        /\ GatewayProfilesFromNames
        /\ \A i \in RowsOfType(GatewayWord) :
              /\ call.rows[i].parts[2] \in DOMAIN ret.gateways
              /\ ret.gateways[call.rows[i].parts[2]][ProfileWord] = call.rows[i].parts[1]

\* C10's case: a table with a profile, an alias of the same name and a
\* gateway has been parsed
C10_Witness ==
    /\ TableParsed
    /\ WellFormedTable
    /\ DistinctNames
    /\ Cardinality(RowsOfType(ProfileWord)) = 1
    /\ Cardinality(RowsOfType(GatewayWord)) = 1
    /\ Cardinality(RowsOfType(AliasWord)) = 1
    /\ \E i \in RowsOfType(ProfileWord), j \in RowsOfType(AliasWord) :
          call.rows[i].parts = call.rows[j].parts
    /\ ret.kind = "return"
    /\ Cardinality(DOMAIN ret.gateways) = 1

\* every gateway row is named profile::gateway
GatewayNamesFit == \A i \in RowsOfType(GatewayWord) : Len(call.rows[i].parts) = 2

KnownTypes == {ProfileWord, GatewayWord, AliasWord}

IsKnownRow(row) == row.type \in KnownTypes

\* the names the rows of a type are stored under
StoredNames(word) == {StoredName(call.rows[i]) : i \in RowsOfType(word)}

\* the last row of a type stored under a name
LastRowOf(word, name) ==
    CHOOSE i \in RowsOfType(word) :
        /\ StoredName(call.rows[i]) = name
        /\ \A j \in RowsOfType(word) : (j > i) => StoredName(call.rows[j]) # name

DataCol == <<"d", "a", "t", "a">>

\* C14: every row goes to at most one map.  For a table whose gateway rows
\* are named profile::gateway, sofia_status returns; each map holds exactly
\* the names of the rows of its own type, each with the data of the last
\* such row, so a row of another type adds nothing to it; and the rows of
\* an unknown type change nothing: the result is that of the table without
\* them.
C14_RowsByType ==
    (TableParsed /\ GatewayNamesFit) =>
        /\ ret.kind = "return"
        /\ DOMAIN ret.profiles = StoredNames(ProfileWord)
        /\ DOMAIN ret.gateways = StoredNames(GatewayWord)
        /\ DOMAIN ret.aliases = StoredNames(AliasWord)
        /\ \A n \in DOMAIN ret.profiles :
              ret.profiles[n][DataCol] = call.rows[LastRowOf(ProfileWord, n)].data
        /\ \A n \in DOMAIN ret.gateways :
              ret.gateways[n][DataCol] = call.rows[LastRowOf(GatewayWord, n)].data
        /\ \A n \in DOMAIN ret.aliases :
              ret.aliases[n][DataCol] = call.rows[LastRowOf(AliasWord, n)].data
        /\ ret = sofia_status(Ran(RenderStatus(SelectSeq(call.rows, IsKnownRow))))

\* C14's case: a row of an unknown type stands between a profile and an
\* alias, and only the two are in the result
C14_Witness ==
    /\ TableParsed
    /\ Len(call.rows) = 3
    /\ call.rows[1].type = ProfileWord
    /\ call.rows[2].type \notin KnownTypes
    /\ call.rows[3].type = AliasWord
    /\ ret.kind = "return"
    /\ Cardinality(DOMAIN ret.profiles) = 1
    /\ Cardinality(DOMAIN ret.aliases) = 1
    /\ DOMAIN ret.gateways = {}

====
